---- MODULE Spec2Model ----
(***************************************************************************)
(* Model of ha_mqtt_discoverable/climate.py: the Climate entity, its       *)
(* capability-to-topic expansion (generate_config), the set_<state>        *)
(* publishers and the on-connect routing of command messages.              *)
(*                                                                         *)
(* Strings that the code takes apart (the config keys, cut with            *)
(* removesuffix) are sequences of their "_"-separated words; MQTT topics   *)
(* are sequences of their "/"-separated levels, each level such a word     *)
(* sequence.  An Optional value is the empty set (None) or a singleton.    *)
(***************************************************************************)
EXTENDS Naturals, Sequences, FiniteSets, TLC

VARIABLES
    constructed,      \* entity -> Climate.__init__ has returned
    capability,       \* entity -> settings.capability (Optional set of flags)
    command_callbacks,\* entity -> keys of the command_callbacks dict
    entity,           \* entity -> the ClimateInfo fields (self._entity)
    state_topics,     \* Climate._state_topics: ONE dict, a class attribute
    command_topics,   \* Climate._command_topics: ONE dict, a class attribute
    cb,               \* entity -> position of its on_client_connected callback
    subscriptions,    \* entity -> topic filters its MQTT client subscribed to
    handlers,         \* entity -> topic filter -> key of the callback added
    written,          \* entity -> Optional discovery config last written
    lastgen,          \* entity -> Optional outcome of its latest generate_config
    state_topic,      \* entity -> Optional value of the attribute self.state_topic
    inbox,            \* entity -> messages its client holds for dispatch
    gen,              \* thread -> the generate_config call it is in the middle of
    event             \* the operation that just ran and what it did

vars == <<constructed, capability, command_callbacks, entity, state_topics,
          command_topics, cb, subscriptions, handlers, written, lastgen,
          state_topic, inbox, gen, event>>

(***************************************************************************)
(* Optional values and dicts                                               *)
(***************************************************************************)
None == {}
Some(x) == {x}
Get(o) == CHOOSE x \in o : TRUE

EmptyDict == << >>
Put(d, k, v) == (k :> v) @@ d
Del(d, k) == [x \in (DOMAIN d) \ {k} |-> d[x]]

(***************************************************************************)
(* ClimateSetting.Capability                                               *)
(***************************************************************************)
Capability ==
    {"ACTION", "CURRENT_HUMIDITY", "CURRENT_TEMPERATURE", "FAN_MODE", "MODE",
     "POWER", "PRESET_MODE", "SWING_MODE", "TARGET_HUMIDITY",
     "TARGET_TEMPERATURE", "TARGET_HIGH_TEMPERATURE", "TARGET_LOW_TEMPERATURE"}

\* `if self._settings.capability:` -- None and the empty flag are both false
CapabilityTruthy(c) == c # None /\ Get(c) # {}

\* `not self._entity.fan_modes` -- None and [] are both false
ListTruthy(l) == l # None /\ Get(l) # <<>>

(***************************************************************************)
(* str.removesuffix on "_"-separated words: "_topic" is the word "topic"   *)
(* with something before it.                                               *)
(***************************************************************************)
removesuffix(s, suffix) ==
    IF Len(s) > Len(suffix)
       /\ SubSeq(s, Len(s) - Len(suffix) + 1, Len(s)) = suffix
    THEN SubSeq(s, 1, Len(s) - Len(suffix))
    ELSE s

\* settings.mqtt.state_prefix and Discoverable._entity_topic ("climate/<name>")
state_prefix == << <<"hmd">> >>
entity_topic(e) == << <<"climate">>, <<e>> >>

\* the f-string of addStateTopic
StateTopicOf(e, key) ==
    state_prefix \o entity_topic(e) \o << <<"state">> >>
        \o << removesuffix(removesuffix(key, <<"topic">>), <<"state">>) >>

\* the f-string of addCommandTopic
CommandTopicOf(e, key) ==
    state_prefix \o entity_topic(e) \o << <<"command">> >>
        \o << removesuffix(removesuffix(key, <<"topic">>), <<"command">>) >>

\* faulty variant: the filter covers everything under the entity topic
CommandFilter_WholeEntity(e) == state_prefix \o entity_topic(e) \o << <<"#">> >>

\* the filter on_client_connected subscribes to
CommandFilter(e) ==
    state_prefix \o entity_topic(e) \o << <<"command">>, <<"#">> >>

(***************************************************************************)
(* The config keys, as the words between their underscores                 *)
(***************************************************************************)
action_topic == <<"action", "topic">>
current_humidity_topic == <<"current", "humidity", "topic">>
current_temperature_topic == <<"current", "temperature", "topic">>
fan_mode_state_topic == <<"fan", "mode", "state", "topic">>
fan_mode_command_topic == <<"fan", "mode", "command", "topic">>
mode_state_topic == <<"mode", "state", "topic">>
mode_command_topic == <<"mode", "command", "topic">>
power_command_topic == <<"power", "command", "topic">>
preset_mode_state_topic == <<"preset", "mode", "state", "topic">>
preset_mode_command_topic == <<"preset", "mode", "command", "topic">>
swing_mode_state_topic == <<"swing", "mode", "state", "topic">>
swing_mode_command_topic == <<"swing", "mode", "command", "topic">>
target_humidity_state_topic == <<"target", "humidity", "state", "topic">>
target_humidity_command_topic == <<"target", "humidity", "command", "topic">>
temperature_state_topic == <<"temperature", "state", "topic">>
temperature_command_topic == <<"temperature", "command", "topic">>
temperature_high_state_topic == <<"temperature", "high", "state", "topic">>
temperature_high_command_topic == <<"temperature", "high", "command", "topic">>
temperature_low_state_topic == <<"temperature", "low", "state", "topic">>
temperature_low_command_topic == <<"temperature", "low", "command", "topic">>

\* keys of the base discovery document
state_topic_key == <<"state", "topic">>
name_key == <<"name">>
component_key == <<"component">>
temperature_unit_key == <<"temperature", "unit">>
fan_modes_key == <<"fan", "modes">>
modes_key == <<"modes">>
preset_modes_key == <<"preset", "modes">>
swing_modes_key == <<"swing", "modes">>

(***************************************************************************)
(* Discoverable.generate_config (the base class): the entity's fields that *)
(* are not None, and the generic state_topic read from self.state_topic.   *)
(***************************************************************************)
PutIfSome(d, k, o) == IF o = None THEN d ELSE Put(d, k, Get(o))

BaseGenerateConfig(ent, state_topic_attr) ==
    LET c0 == Put(Put(EmptyDict, name_key, ent.name), component_key, "climate")
        c1 == PutIfSome(c0, temperature_unit_key, ent.temperature_unit)
        c2 == PutIfSome(c1, fan_modes_key, ent.fan_modes)
        c3 == PutIfSome(c2, modes_key, ent.modes)
        c4 == PutIfSome(c3, preset_modes_key, ent.preset_modes)
        c5 == PutIfSome(c4, swing_modes_key, ent.swing_modes)
    IN  Put(c5, state_topic_key, state_topic_attr)

(***************************************************************************)
(* Climate.generate_config.  g is the running [config, state_topics,       *)
(* command_topics]: the local config dict and the two class dicts.         *)
(***************************************************************************)
addStateTopic(g, e, key) ==
    [g EXCEPT !.config = Put(@, key, StateTopicOf(e, key)),
              !.state_topics = Put(@, key, StateTopicOf(e, key))]

addCommandTopic(g, e, key) ==
    [g EXCEPT !.config = Put(@, key, CommandTopicOf(e, key)),
              !.command_topics = Put(@, key, CommandTopicOf(e, key))]

\* faulty variant: the generic state_topic is not deleted from the config
GenerateBase_KeepsStateTopic(ent) == BaseGenerateConfig(ent, "bogus")

\* lines 170-174: state_topic = "bogus", super().generate_config(), del
GenerateBase(ent) == Del(BaseGenerateConfig(ent, "bogus"), state_topic_key)

\* one `if <flag> in self._settings.capability:` block of lines 191-235
IfState(has, g, e, key) == IF has THEN addStateTopic(g, e, key) ELSE g

\* faulty variant: the command-only block also adds a <x>_state_topic
IfCommand_AlsoState(has, g, e, key) ==
    IF has
    THEN addStateTopic(addCommandTopic(g, e, key), e,
                       removesuffix(key, <<"command", "topic">>)
                           \o <<"state", "topic">>)
    ELSE g

IfCommand(has, g, e, key) == IF has THEN addCommandTopic(g, e, key) ELSE g
IfStateCommand(has, g, e, skey, ckey) ==
    IF has THEN addCommandTopic(addStateTopic(g, e, skey), e, ckey) ELSE g

\* lines 191-235: the if-chain, in the order of the code
AddClimateTopics(g0, e, c) ==
    LET Has(f) == f \in Get(c)
        g1  == IfState(Has("ACTION"), g0, e, action_topic)
        g2  == IfState(Has("CURRENT_HUMIDITY"), g1, e, current_humidity_topic)
        g3  == IfState(Has("CURRENT_TEMPERATURE"), g2, e,
                       current_temperature_topic)
        g4  == IfStateCommand(Has("FAN_MODE"), g3, e,
                              fan_mode_state_topic, fan_mode_command_topic)
        g5  == IfStateCommand(Has("MODE"), g4, e,
                              mode_state_topic, mode_command_topic)
        g6  == IfCommand(Has("POWER"), g5, e, power_command_topic)
        g7  == IfStateCommand(Has("PRESET_MODE"), g6, e,
                              preset_mode_state_topic,
                              preset_mode_command_topic)
        g8  == IfStateCommand(Has("SWING_MODE"), g7, e,
                              swing_mode_state_topic, swing_mode_command_topic)
        g9  == IfStateCommand(Has("TARGET_HUMIDITY"), g8, e,
                              target_humidity_state_topic,
                              target_humidity_command_topic)
        g10 == IfStateCommand(Has("TARGET_TEMPERATURE"), g9, e,
                              temperature_state_topic,
                              temperature_command_topic)
        g11 == IfStateCommand(Has("TARGET_HIGH_TEMPERATURE"), g10, e,
                              temperature_high_state_topic,
                              temperature_high_command_topic)
        g12 == IfStateCommand(Has("TARGET_LOW_TEMPERATURE"), g11, e,
                              temperature_low_state_topic,
                              temperature_low_command_topic)
    IN  g12

\* the whole method: what it returns and what it leaves in the class dicts
generate_config(e, c, ent, st, ct) ==
    LET g0 == [config |-> GenerateBase(ent),
               state_topics |-> st, command_topics |-> ct]
    IN  IF CapabilityTruthy(c) THEN AddClimateTopics(g0, e, c) ELSE g0

(***************************************************************************)
(* What a call can end with                                                *)
(***************************************************************************)
Returned == "returned"
KeyError == "KeyError"
TypeError == "TypeError"
NotConfigured == "RuntimeError: Action is not configured for this entity!"
NotValid == "RuntimeError: not valid value"
SendError == "RuntimeError: Error sending state"
SubscribeError == "RuntimeError: Error subscribing to MQTT command topic"

MQTT_ERR_SUCCESS == "MQTT_ERR_SUCCESS"
MQTT_ERR_NO_CONN == "MQTT_ERR_NO_CONN"
ResultCodes == {MQTT_ERR_SUCCESS, MQTT_ERR_NO_CONN}

\* Climate.Action and its .value
Action == {"OFF", "HEATING", "COOLING", "DRYING", "IDLE", "FAN"}
ActionValue(a) ==
    CASE a = "OFF" -> "off"
      [] a = "HEATING" -> "heating"
      [] a = "COOLING" -> "cooling"
      [] a = "DRYING" -> "drying"
      [] a = "IDLE" -> "idle"
      [] a = "FAN" -> "fan"

\* the defaults of __init__
DefaultFanModes == <<"auto", "low", "medium", "high">>
DefaultModes == <<"auto", "off", "cool", "heat", "dry", "fan_only">>
DefaultSwingModes == <<"on", "off">>

Elements(l) == {l[i] : i \in DOMAIN l}

(***************************************************************************)
(* Discoverable._state_helper and the client's publish (base class and     *)
(* MQTT client): the message goes out when the client accepts it.          *)
(***************************************************************************)
state_helper(state, topic, rc) ==
    [rc |-> rc,
     msgs |-> IF rc = MQTT_ERR_SUCCESS
              THEN << [topic |-> topic, payload |-> state] >> ELSE << >>]

\* Climate._capability_state_helper: [outcome, msgs]
capability_state_helper(c, cap, state, topic, rc) ==
    IF c = None
    THEN [outcome |-> TypeError, msgs |-> << >>]
    ELSE IF cap \notin Get(c)
    THEN [outcome |-> NotConfigured, msgs |-> << >>]
    ELSE LET result == state_helper(state, topic, rc)
         IN  [outcome |-> IF result.rc # MQTT_ERR_SUCCESS
                          THEN SendError ELSE Returned,
              msgs |-> result.msgs]

\* the body shared by set_action ... set_target_low_temperature:
\* look the topic up in self._state_topics, then call the helper
SetState(c, st, key, cap, state, rc) ==
    IF key \notin DOMAIN st
    THEN [outcome |-> KeyError, msgs |-> << >>]
    ELSE capability_state_helper(c, cap, state, st[key], rc)

\* the body shared by set_fan_mode ... set_swing_mode:
\* `value not in list` first, then as above
SetMode(c, st, supported, key, cap, value, rc) ==
    IF supported = None
    THEN [outcome |-> TypeError, msgs |-> << >>]
    ELSE IF value \notin Elements(Get(supported))
    THEN [outcome |-> NotValid, msgs |-> << >>]
    ELSE SetState(c, st, key, cap, value, rc)

(***************************************************************************)
(* MQTT topic matching of the client (subscription filters, callbacks)     *)
(***************************************************************************)
RECURSIVE TopicMatches(_, _)
TopicMatches(filter, topic) ==
    IF filter = << >> THEN topic = << >>
    ELSE IF Head(filter) = <<"#">> THEN TRUE
    ELSE IF topic = << >> THEN FALSE
    ELSE (Head(filter) = <<"+">> \/ Head(filter) = Head(topic))
         /\ TopicMatches(Tail(filter), Tail(topic))

(***************************************************************************)
(* The process: the entities created in it and the inputs of the calls     *)
(***************************************************************************)
Entities == {"test1", "test2"}

Numbers == {18, 30}
ActionInputs == {"OFF", "HEATING"}
ModeInputs == {"auto", "off", "eco", "turbo"}
Payloads == {"on", "64"}

StateKeys ==
    {action_topic, current_humidity_topic, current_temperature_topic,
     fan_mode_state_topic, mode_state_topic, preset_mode_state_topic,
     swing_mode_state_topic, target_humidity_state_topic,
     temperature_state_topic, temperature_high_state_topic,
     temperature_low_state_topic}

CommandKeys ==
    {fan_mode_command_topic, mode_command_topic, power_command_topic,
     preset_mode_command_topic, swing_mode_command_topic,
     target_humidity_command_topic, temperature_command_topic,
     temperature_high_command_topic, temperature_low_command_topic}

\* ClimateInfo as test_required_config and the climate fixture build it
RequiredInfo ==
    [temperature_unit |-> None, fan_modes |-> None, modes |-> None,
     preset_modes |-> None, swing_modes |-> None]
FixtureInfo ==
    [temperature_unit |-> Some("C"), fan_modes |-> None, modes |-> None,
     preset_modes |-> Some(<<"eco", "boost">>), swing_modes |-> None]
EmptyListsInfo ==
    [temperature_unit |-> Some("F"), fan_modes |-> Some(<< >>),
     modes |-> Some(<< >>), preset_modes |-> Some(<< >>),
     swing_modes |-> Some(<< >>)]
CustomInfo ==
    [temperature_unit |-> Some("C"), fan_modes |-> Some(<<"turbo">>),
     modes |-> None, preset_modes |-> None,
     swing_modes |-> Some(<<"on">>)]
MixedInfo ==
    [temperature_unit |-> None, fan_modes |-> Some(<< >>),
     modes |-> Some(<<"heat", "off">>), preset_modes |-> Some(<<"eco">>),
     swing_modes |-> Some(<<"off", "on">>)]

\* the settings and callbacks an entity is created with
Settings(c, keys, info) ==
    [capability |-> c, command_callbacks |-> keys, info |-> info]

TestSettings ==
    { Settings(None, {<<"dump">>}, RequiredInfo),
      Settings(Some({"ACTION"}), {}, FixtureInfo),
      Settings(Some({"FAN_MODE", "POWER"}),
               {fan_mode_command_topic, power_command_topic}, FixtureInfo),
      Settings(Some({"TARGET_HUMIDITY", "MODE"}),
               {target_humidity_command_topic, mode_command_topic},
               FixtureInfo) }

AllSettings ==
    { Settings(c, {}, info) :
        c \in {None} \cup {Some(S) : S \in SUBSET Capability},
        info \in {RequiredInfo, FixtureInfo, EmptyListsInfo, CustomInfo,
                  MixedInfo} }

WithName(info, e) ==
    [name |-> e, temperature_unit |-> info.temperature_unit,
     fan_modes |-> info.fan_modes, modes |-> info.modes,
     preset_modes |-> info.preset_modes, swing_modes |-> info.swing_modes]

NoEvent == [op |-> "none", entity |-> "none"]

\* the application's thread and the MQTT client's network thread
Threads == {"app", "mqtt"}
NoCall == [pc |-> "idle", config |-> EmptyDict]

\* messages a client holds while its thread is busy: at most this many
MaxHeld == 1

(***************************************************************************)
(* A set_<state> call and an inbound message change no field of any        *)
(* entity, class dict or client: they only produce the event.  The state   *)
(* after one is, but for the event, the state before it, so whatever can   *)
(* follow it can equally happen in its place, and leads to the same        *)
(* states.  The model therefore follows a run up to and including the      *)
(* first such call or message and does not continue from there: every      *)
(* step is taken from a state whose event is a lifecycle step.  The        *)
(* reachable states are those of the unrestricted process.  (The dispatch  *)
(* of a held message, which takes it out of the client's inbox, ends a run *)
(* in the same way.)                                                       *)
(***************************************************************************)
LifecycleOps ==
    {"none", "__init__", "generate_config", "subscribe", "write_config",
     "on_client_connected"}
AfterLifecycleStep == event.op \in LifecycleOps

InitWith(settings) ==
    /\ constructed = [e \in Entities |-> FALSE]
    /\ capability = [e \in Entities |-> settings[e].capability]
    /\ command_callbacks = [e \in Entities |-> settings[e].command_callbacks]
    /\ entity = [e \in Entities |-> WithName(settings[e].info, e)]
    /\ state_topics = EmptyDict
    /\ command_topics = EmptyDict
    /\ cb = [e \in Entities |-> "idle"]
    /\ subscriptions = [e \in Entities |-> {}]
    /\ handlers = [e \in Entities |-> EmptyDict]
    /\ written = [e \in Entities |-> None]
    /\ lastgen = [e \in Entities |-> None]
    /\ state_topic = [e \in Entities |-> None]
    /\ inbox = [e \in Entities |-> << >>]
    /\ gen = [t \in Threads |-> NoCall]
    /\ event = NoEvent

\* no Climate exists yet; the arguments each will be created with are chosen
Init == \E settings \in [Entities -> TestSettings] : InitWith(settings)

\* Discoverable.__init__ gives the entity its generic self.state_topic
BaseStateTopic(e) == state_prefix \o entity_topic(e) \o << <<"state">> >>

(***************************************************************************)
(* Climate.__init__ (lines 136-161): keep the settings, fill in the        *)
(* default lists, start the client; the connect callback runs later, on    *)
(* the client's thread.                                                    *)
(***************************************************************************)
\* faulty variant: `is None` in place of `not`, an empty list is kept
InitDefaults_OnlyNone(c, ent) ==
    IF CapabilityTruthy(c)
    THEN [ent EXCEPT
            !.fan_modes = IF "FAN_MODE" \in Get(c) /\ @ = None
                          THEN Some(DefaultFanModes) ELSE @,
            !.modes = IF "MODE" \in Get(c) /\ @ = None
                      THEN Some(DefaultModes) ELSE @,
            !.swing_modes = IF "SWING_MODE" \in Get(c) /\ @ = None
                            THEN Some(DefaultSwingModes) ELSE @]
    ELSE ent

InitDefaults(c, ent) ==
    IF CapabilityTruthy(c)
    THEN [ent EXCEPT
            !.fan_modes = IF "FAN_MODE" \in Get(c) /\ ~ListTruthy(@)
                          THEN Some(DefaultFanModes) ELSE @,
            !.modes = IF "MODE" \in Get(c) /\ ~ListTruthy(@)
                      THEN Some(DefaultModes) ELSE @,
            !.swing_modes = IF "SWING_MODE" \in Get(c) /\ ~ListTruthy(@)
                            THEN Some(DefaultSwingModes) ELSE @]
    ELSE ent

Construct(e) ==
    /\ AfterLifecycleStep
    /\ ~constructed[e]
    /\ constructed' = [constructed EXCEPT ![e] = TRUE]
    /\ entity' = [entity EXCEPT ![e] = InitDefaults(capability[e], @)]
    /\ state_topic' = [state_topic EXCEPT ![e] = Some(BaseStateTopic(e))]
    /\ event' = [op |-> "__init__", entity |-> e, supplied |-> entity[e]]
    /\ UNCHANGED <<capability, command_callbacks, state_topics, command_topics,
                   cb, subscriptions, handlers, written, lastgen,
                   inbox, gen>>

(***************************************************************************)
(* generate_config called on entity e: the config it returns goes into the *)
(* event, the class dicts take what addStateTopic/addCommandTopic stored.  *)
(***************************************************************************)
Generated(e) ==
    generate_config(e, capability[e], entity[e], state_topics, command_topics)

\* (run in one piece the call also sets self.state_topic and deletes it)
RunGenerate(e, g) ==
    /\ state_topics' = g.state_topics
    /\ command_topics' = g.command_topics
    /\ lastgen' = [lastgen EXCEPT ![e] = Some(g)]
    /\ state_topic' = [state_topic EXCEPT ![e] = None]

\* the application calls generate_config itself (test_generate_config)
GenerateConfigCall(e) ==
    /\ AfterLifecycleStep
    /\ constructed[e]
    /\ LET g == Generated(e)
       IN  /\ RunGenerate(e, g)
           /\ event' = [op |-> "generate_config", entity |-> e,
                        returned |-> g, previous |-> lastgen[e]]
    /\ UNCHANGED <<constructed, capability, command_callbacks, entity, cb,
                   subscriptions, handlers, written,
                   inbox, gen>>

(***************************************************************************)
(* on_client_connected (lines 119-134), on the MQTT client's thread, in    *)
(* its three steps: subscribe, write_config, message_callback_add loop.    *)
(***************************************************************************)
\* faulty variant: the result of client.subscribe is not looked at
OnConnectSubscribe_IgnoresResult(e, result) ==
    /\ AfterLifecycleStep
    /\ constructed[e]
    /\ cb[e] = "idle"
    /\ subscriptions' =
           [subscriptions EXCEPT ![e] =
               IF result = MQTT_ERR_SUCCESS THEN @ \cup {CommandFilter(e)}
               ELSE @]
    /\ cb' = [cb EXCEPT ![e] = "subscribed"]
    /\ event' = [op |-> "subscribe", entity |-> e, outcome |-> Returned]
    /\ UNCHANGED <<constructed, capability, command_callbacks, entity,
                   state_topics, command_topics, handlers, written, lastgen,
                   state_topic, inbox, gen>>

OnConnectSubscribe(e, result) ==
    /\ AfterLifecycleStep
    /\ constructed[e]
    /\ cb[e] = "idle"
    /\ IF result = MQTT_ERR_SUCCESS
       THEN /\ subscriptions' =
                   [subscriptions EXCEPT ![e] = @ \cup {CommandFilter(e)}]
            /\ cb' = [cb EXCEPT ![e] = "subscribed"]
            /\ event' = [op |-> "subscribe", entity |-> e,
                         outcome |-> Returned]
       ELSE /\ UNCHANGED <<subscriptions, cb>>
            /\ event' = [op |-> "subscribe", entity |-> e,
                         outcome |-> SubscribeError]
    /\ UNCHANGED <<constructed, capability, command_callbacks, entity,
                   state_topics, command_topics, handlers, written, lastgen,
                   state_topic, inbox, gen>>

\* self.write_config(): publish generate_config() on the config topic
OnConnectWriteConfig(e) ==
    /\ AfterLifecycleStep
    /\ cb[e] = "subscribed"
    /\ LET g == Generated(e)
       IN  /\ RunGenerate(e, g)
           /\ written' = [written EXCEPT ![e] = Some(g.config)]
           /\ event' = [op |-> "write_config", entity |-> e,
                        returned |-> g, previous |-> lastgen[e]]
    /\ cb' = [cb EXCEPT ![e] = "written"]
    /\ UNCHANGED <<constructed, capability, command_callbacks, entity,
                   subscriptions, handlers,
                   inbox, gen>>

\* the client's message_callback_add: one callback per filter
message_callback_add(h, sub, callback) == Put(h, sub, callback)

\* for key, value in self._command_topics.items(): if key in command_callbacks
RECURSIVE AddCallbacks(_, _, _, _)
AddCallbacks(h, keys, ct, callbacks) ==
    IF keys = {} THEN h
    ELSE LET key == CHOOSE k \in keys : TRUE
         IN  AddCallbacks(
                 IF key \in callbacks
                 THEN message_callback_add(h, ct[key], key) ELSE h,
                 keys \ {key}, ct, callbacks)

\* faulty variant: the loop without `if key in command_callbacks`
OnConnectRegister_EveryKey(e) ==
    /\ AfterLifecycleStep
    /\ cb[e] = "written"
    /\ handlers' = [handlers EXCEPT ![e] =
           AddCallbacks(@, DOMAIN command_topics, command_topics,
                        DOMAIN command_topics)]
    /\ cb' = [cb EXCEPT ![e] = "idle"]
    /\ event' = [op |-> "on_client_connected", entity |-> e,
                 outcome |-> Returned]
    /\ UNCHANGED <<constructed, capability, command_callbacks, entity,
                   state_topics, command_topics, subscriptions, written,
                   lastgen,
                   state_topic, inbox, gen>>

OnConnectRegister(e) ==
    /\ AfterLifecycleStep
    /\ cb[e] = "written"
    /\ handlers' = [handlers EXCEPT ![e] =
           AddCallbacks(@, DOMAIN command_topics, command_topics,
                        command_callbacks[e])]
    /\ cb' = [cb EXCEPT ![e] = "idle"]
    /\ event' = [op |-> "on_client_connected", entity |-> e,
                 outcome |-> Returned]
    /\ UNCHANGED <<constructed, capability, command_callbacks, entity,
                   state_topics, command_topics, subscriptions, written,
                   lastgen,
                   state_topic, inbox, gen>>

(***************************************************************************)
(* A message from the broker reaches e's client: the client calls every    *)
(* callback added under a filter that matches the topic.  The client       *)
(* dispatches messages on its network thread, the thread that also runs    *)
(* on_client_connected: a message is dispatched when no callback runs.     *)
(***************************************************************************)
InboundTopics == {CommandTopicOf(x, k) : x \in Entities, k \in CommandKeys}

Deliver(e, topic, payload) ==
    /\ AfterLifecycleStep
    /\ constructed[e]
    /\ cb[e] = "idle"
    /\ inbox[e] = << >>
    /\ \E f \in subscriptions[e] : TopicMatches(f, topic)
    /\ event' = [op |-> "on_message", entity |-> e, topic |-> topic,
                 payload |-> payload,
                 calls |-> {[callback |-> handlers[e][f], payload |-> payload] :
                              f \in {x \in DOMAIN handlers[e] :
                                       TopicMatches(x, topic)}}]
    /\ UNCHANGED <<constructed, capability, command_callbacks, entity,
                   state_topics, command_topics, cb, subscriptions, handlers,
                   written, lastgen,
                   state_topic, inbox, gen>>

(***************************************************************************)
(* A message that reaches e's client while on_client_connected runs, any   *)
(* time after the subscription: the client holds it and dispatches it      *)
(* when the callback has ended.                                            *)
(***************************************************************************)
\* e's command topics for which the application supplied a handler
WindowTopics(e) ==
    {CommandTopicOf(e, K) : K \in command_callbacks[e] \cap CommandKeys}

Receive(e, topic, payload) ==
    /\ AfterLifecycleStep
    /\ cb[e] # "idle"
    /\ topic \in WindowTopics(e)
    /\ \E f \in subscriptions[e] : TopicMatches(f, topic)
    /\ Len(inbox[e]) < MaxHeld
    /\ inbox' = [inbox EXCEPT ![e] =
                    Append(@, [topic |-> topic, payload |-> payload])]
    /\ UNCHANGED <<constructed, capability, command_callbacks, entity,
                   state_topics, command_topics, cb, subscriptions, handlers,
                   written, lastgen, state_topic, gen, event>>

Dispatch(e) ==
    /\ AfterLifecycleStep
    /\ cb[e] = "idle"
    /\ inbox[e] # << >>
    /\ LET m == Head(inbox[e])
       IN  event' = [op |-> "on_message", entity |-> e, topic |-> m.topic,
                     payload |-> m.payload,
                     calls |-> {[callback |-> handlers[e][f],
                                 payload |-> m.payload] :
                                  f \in {x \in DOMAIN handlers[e] :
                                           TopicMatches(x, m.topic)}}]
    /\ inbox' = [inbox EXCEPT ![e] = Tail(@)]
    /\ UNCHANGED <<constructed, capability, command_callbacks, entity,
                   state_topics, command_topics, cb, subscriptions, handlers,
                   written, lastgen, state_topic, gen>>

(***************************************************************************)
(* generate_config statement by statement, as thread t runs it on entity   *)
(* e: the application calls it ("app"), write_config calls it inside the   *)
(* connect callback ("mqtt").  self.state_topic is an attribute of the     *)
(* entity, the same for both threads; config is local to the call.         *)
(***************************************************************************)
AttributeError == "AttributeError"

GenerateOp(t) == IF t = "mqtt" THEN "write_config" ELSE "generate_config"

\* the call may begin: the application any time after __init__, the
\* callback after its subscribe
MayCall(t, e) ==
    IF t = "mqtt" THEN cb[e] = "subscribed" ELSE constructed[e]

\* the call (and with it the connect callback) ends with an exception
Raise(t, e, error) ==
    /\ gen' = [gen EXCEPT ![t] = NoCall]
    /\ cb' = IF t = "mqtt" THEN [cb EXCEPT ![e] = "idle"] ELSE cb
    /\ event' = [op |-> GenerateOp(t), entity |-> e, thread |-> t,
                 outcome |-> error]

\* line 170: self.state_topic = "bogus"
GenSetPlaceholder(t, e) ==
    /\ AfterLifecycleStep
    /\ MayCall(t, e)
    /\ gen[t].pc = "idle"
    /\ state_topic' = [state_topic EXCEPT ![e] = Some("bogus")]
    /\ gen' = [gen EXCEPT ![t] = [pc |-> "super", config |-> EmptyDict]]
    /\ UNCHANGED <<constructed, capability, command_callbacks, entity,
                   state_topics, command_topics, cb, subscriptions, handlers,
                   written, lastgen, inbox, event>>

\* line 171: config = super().generate_config(), which reads self.state_topic
GenSuper(t, e) ==
    /\ gen[t].pc = "super"
    /\ IF state_topic[e] = None
       THEN Raise(t, e, AttributeError)
       ELSE /\ gen' = [gen EXCEPT ![t] =
                         [pc |-> "delattr",
                          config |-> BaseGenerateConfig(entity[e],
                                                        Get(state_topic[e]))]]
            /\ UNCHANGED <<cb, event>>
    /\ UNCHANGED <<constructed, capability, command_callbacks, entity,
                   state_topics, command_topics, subscriptions, handlers,
                   written, lastgen, state_topic, inbox>>

\* line 173: delattr(self, "state_topic")
GenDelattr(t, e) ==
    /\ gen[t].pc = "delattr"
    /\ IF state_topic[e] = None
       THEN /\ Raise(t, e, AttributeError)
            /\ UNCHANGED state_topic
       ELSE /\ state_topic' = [state_topic EXCEPT ![e] = None]
            /\ gen' = [gen EXCEPT ![t].pc = "rest"]
            /\ UNCHANGED <<cb, event>>
    /\ UNCHANGED <<constructed, capability, command_callbacks, entity,
                   state_topics, command_topics, subscriptions, handlers,
                   written, lastgen, inbox>>

\* lines 174-236: del config["state_topic"], the climate topics, return;
\* in the callback write_config then publishes the config
GenReturn(t, e) ==
    /\ gen[t].pc = "rest"
    /\ LET g0 == [config |-> Del(gen[t].config, state_topic_key),
                  state_topics |-> state_topics,
                  command_topics |-> command_topics]
           g == IF CapabilityTruthy(capability[e])
                THEN AddClimateTopics(g0, e, capability[e]) ELSE g0
       IN  /\ state_topics' = g.state_topics
           /\ command_topics' = g.command_topics
           /\ lastgen' = [lastgen EXCEPT ![e] = Some(g)]
           /\ written' = IF t = "mqtt"
                         THEN [written EXCEPT ![e] = Some(g.config)]
                         ELSE written
           /\ event' = [op |-> GenerateOp(t), entity |-> e, thread |-> t,
                        outcome |-> Returned, returned |-> g,
                        previous |-> lastgen[e]]
    /\ gen' = [gen EXCEPT ![t] = NoCall]
    /\ cb' = IF t = "mqtt" THEN [cb EXCEPT ![e] = "written"] ELSE cb
    /\ UNCHANGED <<constructed, capability, command_callbacks, entity,
                   subscriptions, handlers, state_topic, inbox>>

(***************************************************************************)
(* The set_<state> methods (lines 257-342), called by the application on a *)
(* constructed entity.  Each leaves the entity as it was; what it raised   *)
(* or published is the event.                                              *)
(***************************************************************************)
Called(op, e, arg, rc, r) ==
    /\ AfterLifecycleStep
    /\ constructed[e]
    /\ event' = [op |-> op, entity |-> e, arg |-> arg, rc |-> rc,
                 outcome |-> r.outcome, msgs |-> r.msgs]
    /\ UNCHANGED <<constructed, capability, command_callbacks, entity,
                   state_topics, command_topics, cb, subscriptions, handlers,
                   written, lastgen,
                   state_topic, inbox, gen>>

set_action(e, action, rc) ==
    Called("set_action", e, action, rc,
           SetState(capability[e], state_topics, action_topic, "ACTION",
                    ActionValue(action), rc))

set_current_humidity(e, humidity, rc) ==
    Called("set_current_humidity", e, humidity, rc,
           SetState(capability[e], state_topics, current_humidity_topic,
                    "CURRENT_HUMIDITY", ToString(humidity), rc))

set_target_humidity(e, humidity, rc) ==
    Called("set_target_humidity", e, humidity, rc,
           SetState(capability[e], state_topics, target_humidity_state_topic,
                    "TARGET_HUMIDITY", ToString(humidity), rc))

set_current_temperature(e, temperature, rc) ==
    Called("set_current_temperature", e, temperature, rc,
           SetState(capability[e], state_topics, current_temperature_topic,
                    "CURRENT_TEMPERATURE", ToString(temperature), rc))

set_target_temperature(e, temperature, rc) ==
    Called("set_target_temperature", e, temperature, rc,
           SetState(capability[e], state_topics, temperature_state_topic,
                    "TARGET_TEMPERATURE", ToString(temperature), rc))

set_target_high_temperature(e, temperature, rc) ==
    Called("set_target_high_temperature", e, temperature, rc,
           SetState(capability[e], state_topics, temperature_high_state_topic,
                    "TARGET_HIGH_TEMPERATURE", ToString(temperature), rc))

set_target_low_temperature(e, temperature, rc) ==
    Called("set_target_low_temperature", e, temperature, rc,
           SetState(capability[e], state_topics, temperature_low_state_topic,
                    "TARGET_LOW_TEMPERATURE", ToString(temperature), rc))

set_fan_mode(e, fan_mode, rc) ==
    Called("set_fan_mode", e, fan_mode, rc,
           SetMode(capability[e], state_topics, entity[e].fan_modes,
                   fan_mode_state_topic, "FAN_MODE", fan_mode, rc))

set_mode(e, mode, rc) ==
    Called("set_mode", e, mode, rc,
           SetMode(capability[e], state_topics, entity[e].modes,
                   mode_state_topic, "MODE", mode, rc))

set_preset_mode(e, preset_mode, rc) ==
    Called("set_preset_mode", e, preset_mode, rc,
           SetMode(capability[e], state_topics, entity[e].preset_modes,
                   preset_mode_state_topic, "PRESET_MODE", preset_mode, rc))

set_swing_mode(e, swing_mode, rc) ==
    Called("set_swing_mode", e, swing_mode, rc,
           SetMode(capability[e], state_topics, entity[e].swing_modes,
                   swing_mode_state_topic, "SWING_MODE", swing_mode, rc))

(***************************************************************************)
(* The process: entities are created, their clients connect and reconnect, *)
(* the application publishes states, commands arrive.                      *)
(***************************************************************************)
Next ==
    \/ \E e \in Entities : Construct(e)
    \/ \E e \in Entities : GenerateConfigCall(e)
    \/ \E e \in Entities, result \in ResultCodes : OnConnectSubscribe(e, result)
    \/ \E e \in Entities : OnConnectWriteConfig(e)
    \/ \E e \in Entities : OnConnectRegister(e)
    \/ \E e \in Entities, t \in InboundTopics, p \in Payloads : Deliver(e, t, p)
    \/ \E e \in Entities, a \in ActionInputs, rc \in ResultCodes :
           set_action(e, a, rc)
    \/ \E e \in Entities, n \in Numbers, rc \in ResultCodes :
           set_current_humidity(e, n, rc)
    \/ \E e \in Entities, n \in Numbers, rc \in ResultCodes :
           set_target_humidity(e, n, rc)
    \/ \E e \in Entities, n \in Numbers, rc \in ResultCodes :
           set_current_temperature(e, n, rc)
    \/ \E e \in Entities, n \in Numbers, rc \in ResultCodes :
           set_target_temperature(e, n, rc)
    \/ \E e \in Entities, n \in Numbers, rc \in ResultCodes :
           set_target_high_temperature(e, n, rc)
    \/ \E e \in Entities, n \in Numbers, rc \in ResultCodes :
           set_target_low_temperature(e, n, rc)
    \/ \E e \in Entities, m \in ModeInputs, rc \in ResultCodes :
           set_fan_mode(e, m, rc)
    \/ \E e \in Entities, m \in ModeInputs, rc \in ResultCodes :
           set_mode(e, m, rc)
    \/ \E e \in Entities, m \in ModeInputs, rc \in ResultCodes :
           set_preset_mode(e, m, rc)
    \/ \E e \in Entities, m \in ModeInputs, rc \in ResultCodes :
           set_swing_mode(e, m, rc)

Spec == Init /\ [][Next]_vars

(***************************************************************************)
(* One entity, created with any capability set and entity info, on which   *)
(* __init__ and generate_config are applied.                               *)
(***************************************************************************)
InitOne ==
    \E s \in AllSettings :
        InitWith([e \in Entities |->
                    IF e = "test1" THEN s
                    ELSE Settings(None, {}, RequiredInfo)])

NextOne == Construct("test1") \/ GenerateConfigCall("test1")

SpecOne == InitOne /\ [][NextOne]_vars

(***************************************************************************)
(* The entities connect while messages for them come in: the connect       *)
(* callbacks, the application's generate_config, and the messages a        *)
(* client receives while its callback runs.                                *)
(***************************************************************************)
NextWindow ==
    \/ \E e \in Entities : Construct(e)
    \/ \E e \in Entities : GenerateConfigCall(e)
    \/ \E e \in Entities, result \in ResultCodes : OnConnectSubscribe(e, result)
    \/ \E e \in Entities : OnConnectWriteConfig(e)
    \/ \E e \in Entities : OnConnectRegister(e)
    \/ \E e \in Entities, t \in InboundTopics, p \in Payloads : Receive(e, t, p)
    \/ \E e \in Entities : Dispatch(e)

SpecWindow == Init /\ [][NextWindow]_vars

(***************************************************************************)
(* One entity whose connect callback runs on the client's thread while     *)
(* the application calls generate_config, statement by statement.          *)
(***************************************************************************)
InitRace ==
    \E s \in TestSettings :
        InitWith([e \in Entities |->
                    IF e = "test1" THEN s
                    ELSE Settings(None, {}, RequiredInfo)])

NextRace ==
    \/ Construct("test1")
    \/ \E result \in ResultCodes : OnConnectSubscribe("test1", result)
    \/ \E t \in Threads : GenSetPlaceholder(t, "test1")
    \/ \E t \in Threads : GenSuper(t, "test1")
    \/ \E t \in Threads : GenDelattr(t, "test1")
    \/ \E t \in Threads : GenReturn(t, "test1")
    \/ OnConnectRegister("test1")

SpecRace == InitRace /\ [][NextRace]_vars

(***************************************************************************)
(* Properties                                                              *)
(***************************************************************************)
GenerateOps == {"generate_config", "write_config"}
SetOps ==
    {"set_action", "set_current_humidity", "set_target_humidity",
     "set_current_temperature", "set_target_temperature",
     "set_target_high_temperature", "set_target_low_temperature",
     "set_fan_mode", "set_mode", "set_preset_mode", "set_swing_mode"}
ModeOps == {"set_fan_mode", "set_mode", "set_preset_mode", "set_swing_mode"}

Flags(c) == IF c = None THEN {} ELSE Get(c)
ClimateKeys == StateKeys \cup CommandKeys
BaseKeys(e) == DOMAIN BaseGenerateConfig(entity[e], "")

\* the fixed table of capabilities and topic keys
TableStateOnly(f) ==
    CASE f = "ACTION" -> {<<"action", "topic">>}
      [] f = "CURRENT_HUMIDITY" -> {<<"current", "humidity", "topic">>}
      [] f = "CURRENT_TEMPERATURE" -> {<<"current", "temperature", "topic">>}
      [] OTHER -> {}
TableCommandOnly(f) ==
    CASE f = "POWER" -> {<<"power", "command", "topic">>}
      [] OTHER -> {}
TablePair(x) == {x \o <<"state", "topic">>, x \o <<"command", "topic">>}
TableBoth(f) ==
    CASE f = "FAN_MODE" -> TablePair(<<"fan", "mode">>)
      [] f = "MODE" -> TablePair(<<"mode">>)
      [] f = "PRESET_MODE" -> TablePair(<<"preset", "mode">>)
      [] f = "SWING_MODE" -> TablePair(<<"swing", "mode">>)
      [] f = "TARGET_HUMIDITY" -> TablePair(<<"target", "humidity">>)
      [] f = "TARGET_TEMPERATURE" -> TablePair(<<"temperature">>)
      [] f = "TARGET_HIGH_TEMPERATURE" -> TablePair(<<"temperature", "high">>)
      [] f = "TARGET_LOW_TEMPERATURE" -> TablePair(<<"temperature", "low">>)
      [] OTHER -> {}
TableKeys(f) == TableStateOnly(f) \cup TableCommandOnly(f) \cup TableBoth(f)

\* C1: the keys generate_config adds to the base config are exactly the
\* table's keys of the capabilities in the set: a state key only for ACTION,
\* CURRENT_HUMIDITY and CURRENT_TEMPERATURE, a command key only for POWER,
\* a state and a command key for the other eight, nothing for a capability
\* that is not in the set (and nothing at all for no capability).
C1_TopicKeysAreTheTable ==
    event.op \in GenerateOps =>
        (DOMAIN event.returned.config) \ BaseKeys(event.entity)
            = UNION {TableKeys(f) : f \in Flags(capability[event.entity])}

C1_Witness ==
    /\ event.op = "generate_config"
    /\ capability[event.entity] = Some({"ACTION", "POWER", "TARGET_TEMPERATURE"})
    /\ (DOMAIN event.returned.config) \cap ClimateKeys
          = {action_topic, power_command_topic, temperature_state_topic,
             temperature_command_topic}

\* C9: the returned config has no state_topic key, and apart from the
\* climate topic keys it is the base config without state_topic: every
\* other base key is there with the value the entity info gave it.
C9_BaseConfigKept ==
    event.op \in GenerateOps =>
        LET config == event.returned.config
            base == BaseGenerateConfig(entity[event.entity], "")
            info == entity[event.entity]
        IN  /\ state_topic_key \notin DOMAIN config
            /\ (DOMAIN config) \ ClimateKeys = (DOMAIN base) \ {state_topic_key}
            /\ \A k \in (DOMAIN base) \ {state_topic_key} : config[k] = base[k]
            /\ info.temperature_unit # None =>
                   config[temperature_unit_key] = Get(info.temperature_unit)

C9_Witness ==
    /\ event.op = "generate_config"
    /\ capability[event.entity] = Some({"FAN_MODE", "ACTION"})
    /\ entity[event.entity].temperature_unit = Some("C")
    /\ event.returned.config[temperature_unit_key] = "C"
    /\ fan_mode_state_topic \in DOMAIN event.returned.config

\* C10: after __init__, each of fan_modes, modes, swing_modes whose
\* capability is in the set is the default list when the info gave None or
\* an empty list and the supplied list otherwise, so it is never empty; a
\* list whose capability is not in the set is as supplied.
C10_List(flag, supplied, now, default) ==
    IF flag \in Flags(capability[event.entity])
    THEN /\ now # None /\ Get(now) # << >>
         /\ now = IF supplied = None \/ supplied = Some(<< >>)
                  THEN Some(default) ELSE supplied
    ELSE now = supplied

C10_DefaultLists ==
    /\ event.op = "__init__" =>
          LET before == event.supplied
              after == entity[event.entity]
          IN  /\ C10_List("FAN_MODE", before.fan_modes, after.fan_modes,
                          <<"auto", "low", "medium", "high">>)
              /\ C10_List("MODE", before.modes, after.modes,
                          <<"auto", "off", "cool", "heat", "dry", "fan_only">>)
              /\ C10_List("SWING_MODE", before.swing_modes, after.swing_modes,
                          <<"on", "off">>)
              /\ after.preset_modes = before.preset_modes
    /\ \A e \in Entities :
          constructed[e] =>
              /\ "FAN_MODE" \in Flags(capability[e]) =>
                     ListTruthy(entity[e].fan_modes)
              /\ "MODE" \in Flags(capability[e]) => ListTruthy(entity[e].modes)
              /\ "SWING_MODE" \in Flags(capability[e]) =>
                     ListTruthy(entity[e].swing_modes)

C10_Witness ==
    /\ event.op = "__init__"
    /\ capability[event.entity] = Some({"FAN_MODE", "MODE"})
    /\ event.supplied.fan_modes = Some(<< >>)
    /\ event.supplied.modes = Some(<<"heat", "off">>)
    /\ event.supplied.swing_modes = Some(<<"off", "on">>)
    /\ entity[event.entity].fan_modes = Some(<<"auto", "low", "medium", "high">>)
    /\ entity[event.entity].modes = Some(<<"heat", "off">>)
    /\ entity[event.entity].swing_modes = Some(<<"off", "on">>)

(***************************************************************************)
(* The set_<state> operations as the claims speak of them: the capability  *)
(* and the state key that match each, the string form of its argument,     *)
(* and whether the argument is one the operation accepts.                  *)
(***************************************************************************)
OpCapability(op) ==
    CASE op = "set_action" -> "ACTION"
      [] op = "set_current_humidity" -> "CURRENT_HUMIDITY"
      [] op = "set_target_humidity" -> "TARGET_HUMIDITY"
      [] op = "set_current_temperature" -> "CURRENT_TEMPERATURE"
      [] op = "set_target_temperature" -> "TARGET_TEMPERATURE"
      [] op = "set_target_high_temperature" -> "TARGET_HIGH_TEMPERATURE"
      [] op = "set_target_low_temperature" -> "TARGET_LOW_TEMPERATURE"
      [] op = "set_fan_mode" -> "FAN_MODE"
      [] op = "set_mode" -> "MODE"
      [] op = "set_preset_mode" -> "PRESET_MODE"
      [] op = "set_swing_mode" -> "SWING_MODE"

OpStateKey(op) == CHOOSE k \in TableKeys(OpCapability(op)) : k \in StateKeys

StringForm(op, arg) ==
    IF op = "set_action" THEN ActionValue(arg)
    ELSE IF op \in ModeOps THEN arg
    ELSE ToString(arg)

Supported(op, e) ==
    CASE op = "set_fan_mode" -> entity[e].fan_modes
      [] op = "set_mode" -> entity[e].modes
      [] op = "set_preset_mode" -> entity[e].preset_modes
      [] op = "set_swing_mode" -> entity[e].swing_modes

Accepted(op, e, arg) ==
    op \in ModeOps =>
        Supported(op, e) # None /\ arg \in Elements(Get(Supported(op, e)))

Configured(op, e) == OpCapability(op) \in Flags(capability[e])

\* the config the entity advertises: what its generate_config returns
Advertised(e) == Generated(e).config

IsCommandTopic(t) == \E x \in Entities, k \in CommandKeys : t = CommandTopicOf(x, k)

\* C2 (as stated): a set_<state> call with an accepted value, on an entity
\* that has the matching capability, publishes exactly one message, on the
\* state topic its discovery config advertises under the matching key, with
\* the string form of the value as payload, and never on a command topic
\* (the client accepting the message).
C2_PublishesOnAdvertisedStateTopic ==
    /\ (/\ event.op \in SetOps
        /\ event.rc = MQTT_ERR_SUCCESS
        /\ Configured(event.op, event.entity)
        /\ Accepted(event.op, event.entity, event.arg))
       => /\ Len(event.msgs) = 1
          /\ event.msgs[1].topic
                = Advertised(event.entity)[OpStateKey(event.op)]
          /\ event.msgs[1].payload = StringForm(event.op, event.arg)
    /\ event.op \in SetOps =>
          \A i \in DOMAIN event.msgs : ~IsCommandTopic(event.msgs[i].topic)

\* C7 (as stated): a set_<state> call made after the constructor returned,
\* for a capability of the entity, publishes the state whether or not the
\* connect callback or generate_config of the entity has run yet.
C7_PublishesBeforeConnect ==
    (/\ event.op \in SetOps
     /\ event.rc = MQTT_ERR_SUCCESS
     /\ Configured(event.op, event.entity)
     /\ Accepted(event.op, event.entity, event.arg)
     /\ lastgen[event.entity] = None)
    => /\ event.outcome = Returned
       /\ Len(event.msgs) >= 1

\* C4 (as stated): a set_<state> call for a capability that is not in the
\* entity's capability set (None included) raises RuntimeError("Action is
\* not configured for this entity!") and publishes nothing, whatever the
\* class dicts hold.
C4_NotConfiguredRaises ==
    (/\ event.op \in SetOps
     /\ ~Configured(event.op, event.entity)
     /\ Accepted(event.op, event.entity, event.arg))
    => /\ event.outcome = NotConfigured
       /\ event.msgs = << >>

\* C5 (as stated): set_fan_mode, set_mode, set_preset_mode, set_swing_mode
\* raise RuntimeError and publish nothing for a value that is not in the
\* entity's list, and publish every value that is in the list when the
\* capability is configured.
IsRuntimeError(o) == o \in {NotConfigured, NotValid, SendError}

C5_ModesValidated ==
    (event.op \in ModeOps /\ Supported(event.op, event.entity) # None) =>
        IF event.arg \notin Elements(Get(Supported(event.op, event.entity)))
        THEN IsRuntimeError(event.outcome) /\ event.msgs = << >>
        ELSE (Configured(event.op, event.entity)
                 /\ event.rc = MQTT_ERR_SUCCESS)
             => /\ event.outcome = Returned
                /\ Len(event.msgs) = 1
                /\ event.msgs[1].payload = event.arg

\* the command keys of e's capabilities for which a handler was supplied
HandledKeys(e) ==
    command_callbacks[e] \cap CommandKeys
        \cap UNION {TableKeys(f) : f \in Flags(capability[e])}

\* e's connect callback has run to its end and is not running again
ConnectCompleted(e) == cb[e] = "idle" /\ written[e] # None

\* C3 (as stated): once the on-connect callback has completed, a message
\* arriving on the command topic of a configured capability with a handler
\* supplied under key K is delivered to command_callbacks[K], payload
\* unchanged, and to no other handler.
C3_CommandsRouted ==
    (event.op = "on_message" /\ ConnectCompleted(event.entity)) =>
        \A K \in HandledKeys(event.entity) :
            event.topic = Advertised(event.entity)[K] =>
                event.calls = {[callback |-> K, payload |-> event.payload]}

\* C6: an entity created with no capability and with callbacks whose keys
\* name no command topic: its on-connect sequence runs to its end, the
\* config it writes has no climate state or command topic key, and no
\* handler is ever added to its client -- also when other entities have
\* filled the class dicts.
NoCapabilityEntity(e) ==
    capability[e] = None /\ command_callbacks[e] \cap CommandKeys = {}

C6_NoCapabilityEntity ==
    \A e \in Entities :
        NoCapabilityEntity(e) =>
            /\ DOMAIN handlers[e] = {}
            /\ written[e] # None =>
                   (DOMAIN Get(written[e])) \cap ClimateKeys = {}
            /\ (event.entity = e /\ event.op = "write_config") =>
                   (DOMAIN event.returned.config) \cap ClimateKeys = {}
            /\ (event.entity = e /\ event.op = "on_client_connected") =>
                   event.outcome = Returned /\ written[e] # None

C6_Witness ==
    \E e \in Entities :
        /\ NoCapabilityEntity(e)
        /\ command_callbacks[e] # {}
        /\ event.entity = e /\ event.op = "on_client_connected"
        /\ DOMAIN command_topics # {}
        /\ DOMAIN handlers[e] = {}

\* C8 (as stated): any two generate_config calls on the same entity, with
\* anything in between, return equal configs and leave the state-topic and
\* command-topic tables with the same contents.
C8_GenerateConfigIdempotent ==
    (event.op \in GenerateOps /\ event.previous # None) =>
        /\ event.returned.config = Get(event.previous).config
        /\ event.returned.state_topics = Get(event.previous).state_topics
        /\ event.returned.command_topics = Get(event.previous).command_topics

(***************************************************************************)
(* The connect callback                                                    *)
(***************************************************************************)
\* C11: in a connect callback of entity e the config is written only by the
\* step that follows a successful subscription to
\* <state_prefix>/<entity_topic>/command/#, and handlers are added only by
\* the step that follows the write; when the subscription does not return
\* success the callback ends with RuntimeError, the written config and the
\* handlers are as they were, and no later step of that callback runs.
C11_Step(e) ==
    /\ (written'[e] # written[e]
          \/ (event'.op = "write_config" /\ event'.entity = e /\ event' # event))
       => /\ cb[e] = "subscribed"
          /\ CommandFilter(e) \in subscriptions[e]
          /\ handlers'[e] = handlers[e]
          /\ cb'[e] = "written"
    /\ (handlers'[e] # handlers[e]
          \/ (event'.op = "on_client_connected" /\ event'.entity = e
                /\ event' # event))
       => /\ cb[e] = "written"
          /\ written[e] # None
          /\ CommandFilter(e) \in subscriptions[e]
    /\ (event'.op = "subscribe" /\ event'.entity = e /\ cb[e] = "idle"
          /\ cb'[e] = "subscribed")
       => /\ event'.outcome = Returned
          /\ CommandFilter(e) \in subscriptions'[e]
    /\ (event'.op = "subscribe" /\ event'.entity = e
          /\ CommandFilter(e) \notin subscriptions'[e])
       => /\ event'.outcome = SubscribeError
          /\ written'[e] = written[e]
          /\ handlers'[e] = handlers[e]
          /\ cb'[e] = "idle"

C11_SubscribeWriteRegister == [][\A e \in Entities : C11_Step(e)]_vars

C11_Witness ==
    /\ event.op = "on_client_connected"
    /\ CommandFilter(event.entity) \in subscriptions[event.entity]
    /\ written[event.entity] # None
    /\ DOMAIN handlers[event.entity] # {}

\* C12: for every capability set, a topic generate_config puts in the
\* entity's config matches the entity's subscription filter
\* <state_prefix>/<entity_topic>/command/# exactly when it stands under a
\* command key: every command topic is covered, no state topic is.
C12_FilterCoversCommandTopicsOnly ==
    event.op \in GenerateOps =>
        LET config == event.returned.config
            filter == CommandFilter(event.entity)
        IN  /\ \A k \in (DOMAIN config) \cap ClimateKeys :
                   TopicMatches(filter, config[k]) <=> k \in CommandKeys
            /\ \A k \in (DOMAIN config) \cap CommandKeys :
                   /\ k \in DOMAIN event.returned.command_topics
                   /\ TopicMatches(filter, event.returned.command_topics[k])
            /\ \A k \in (DOMAIN config) \cap StateKeys :
                   /\ k \in DOMAIN event.returned.state_topics
                   /\ ~TopicMatches(filter, event.returned.state_topics[k])

C12_Witness ==
    /\ event.op = "generate_config"
    /\ capability[event.entity] = Some({"FAN_MODE", "POWER", "CURRENT_HUMIDITY"})
    /\ TopicMatches(CommandFilter(event.entity),
                    event.returned.config[fan_mode_command_topic])
    /\ TopicMatches(CommandFilter(event.entity),
                    event.returned.config[power_command_topic])
    /\ ~TopicMatches(CommandFilter(event.entity),
                     event.returned.config[fan_mode_state_topic])
    /\ ~TopicMatches(CommandFilter(event.entity),
                     event.returned.config[current_humidity_topic])

\* the handlers the claims expect on e's client: one per handled key, on
\* the command topic e's own config gives that key
ExpectedHandlers(e) ==
    [t \in {CommandTopicOf(e, K) : K \in HandledKeys(e)} |->
        CHOOSE K \in HandledKeys(e) : CommandTopicOf(e, K) = t]

\* C13 (as stated): after any number of completed connect callbacks, the
\* handlers on the entity's client are exactly one per key K that is a
\* command key of one of its capabilities and a key of command_callbacks,
\* added on that key's command topic with command_callbacks[K]; none for a
\* capability the entity does not have, none twice.
C13_HandlersAreTheHandledKeys ==
    \A e \in Entities :
        ConnectCompleted(e) => handlers[e] = ExpectedHandlers(e)

\* C14 (as stated): the state-topic and command-topic tables an entity reads
\* (self._state_topics, self._command_topics) hold only keys of the
\* entity's own capabilities, with topics under its own entity topic,
\* whatever other entities were created and connected.
C14_TablesAreTheEntitysOwn ==
    \A e \in Entities :
        constructed[e] =>
            /\ \A k \in DOMAIN state_topics :
                   /\ k \in UNION {TableKeys(f) : f \in Flags(capability[e])}
                   /\ state_topics[k] = StateTopicOf(e, k)
            /\ \A k \in DOMAIN command_topics :
                   /\ k \in UNION {TableKeys(f) : f \in Flags(capability[e])}
                   /\ command_topics[k] = CommandTopicOf(e, k)

\* C15 (as stated): a message the client received on a command topic of the
\* entity with a supplied handler, after the subscription and before
\* write_config and message_callback_add had completed, is delivered to
\* that handler when the client dispatches it.
C15_NoMessageLostInWindow ==
    event.op = "on_message" =>
        \A K \in HandledKeys(event.entity) :
            event.topic = Advertised(event.entity)[K] =>
                [callback |-> K, payload |-> event.payload] \in event.calls

\* C16 (as stated): with generate_config running on the application's
\* thread while write_config runs it on the client's thread, in every
\* interleaving of their statements each call returns, without error, the
\* complete discovery config.
C16_ConcurrentGenerateConfig ==
    event.op \in GenerateOps =>
        /\ event.outcome = Returned
        /\ event.returned.config
              = generate_config(event.entity, capability[event.entity],
                                entity[event.entity], EmptyDict,
                                EmptyDict).config

====
